---------------------------- MODULE Spec2Model ----------------------------
(***************************************************************************)
(* A model of server.py: the per-connection AgentSession (context and      *)
(* step counter), the ConnectionManager registry and the message loop of   *)
(* websocket_endpoint.                                                     *)
(***************************************************************************)
EXTENDS Integers, Sequences, FiniteSets, TLC

\* ------------------------------------------------------------------ bounds
\* A non-init message is received only while the context is shorter than this.
MaxContext == 4
\* The same bound in the runs with several connections.
MaxContextTwo == 2

\* --------------------------------------------------------------- universes
\* The endpoint coroutines (one per accepted connection; each runs once).
Handlers == {1, 2}
\* The client_id path parameter of /ws/agent/{client_id}.
ClientIds == {"c1", "c2"}

\* Python's None: the value of data.get(key) for a key the message lacks.
None == "<None>"
\* data before a message has been received / response_payload before one is built.
NoMsg == [type |-> None, task |-> None, screenshot |-> None, screen_info |-> None]
NoResp == [status |-> None]
\* response before model_client.request has returned.
NoResponse == [thinking |-> None, action |-> None]

Types == {None, "init", "step", "ping"}
Tasks == {None, "", "buy lunch"}
Shots == {None, "", "imgA", "imgB"}
Infos == {None, "Home"}
\* The JSON objects a client may send: a task only on an init, imgA described
\* as "Home" and imgB sent without a screen_info.
Messages ==
    { m \in [type : Types, task : Tasks, screenshot : Shots, screen_info : Infos] :
        /\ m.type # "init" => m.task = None
        /\ m.screenshot = "imgA" => m.screen_info = "Home"
        /\ m.screenshot = "imgB" => m.screen_info = None }
\* A reduced set of messages, for the runs with several connections: a
\* valid init, a valid step, a step without screenshot, an init without task
\* and a message of unknown type.
FewMessages ==
    { m \in Messages : /\ m.screen_info = "Home"
                       /\ \/ m.type = "init" /\ m.screenshot = "imgA"
                          \/ m.type = "step" /\ m.screenshot \in {None, "imgA"}
                          \/ m.type = "ping" /\ m.screenshot = "imgA"
                       /\ m.task # "" }

\* What model_client.request may return: a thinking text and an action text.
Thinkings == {"look"}
Actions == {"do(action=Tap)", "all done"}
ModelResponses == [thinking : Thinkings, action : Actions]
\* A reduced set of answers, for the runs with several connections.
FewResponses == [thinking : Thinkings, action : {"all done"}]

SYSTEM_PROMPT == "SYSTEM_PROMPT"

\* ------------------------------------------------------- Python semantics
\* `not x` for the values a message field can hold.
Falsy(x) == x = None \/ x = ""
\* data.get(key, default)
Get(v, default) == IF v = None THEN default ELSE v

\* --------------------------------------------------------- MessageBuilder
TextPart(t) == [type |-> "text", val |-> t]
ImagePart(i) == [type |-> "image", val |-> i]

create_system_message(prompt) ==
    [role |-> "system", content |-> <<TextPart(prompt)>>]

create_user_message(text, image_base64) ==
    [role |-> "user",
     content |-> <<TextPart(text)>>
                 \o (IF Falsy(image_base64) THEN <<>> ELSE <<ImagePart(image_base64)>>)]

create_assistant_message(text) ==
    [role |-> "assistant", content |-> <<TextPart(text)>>]

remove_images_from_message(turn) ==
    [turn EXCEPT !.content = SelectSeq(@, LAMBDA p : p.type # "image")]

\* ------------------------------------------------------------ AgentSession
\* AgentSession.__init__
NewSession == [context |-> <<>>, step_count |-> 0]

InitText(task, screen_info) == task \o "\n\nScreen Info: " \o screen_info

\* init_session without its `self.context = []`.
init_session_KeepsHistory(s, task, screen_info, screenshot_base64) ==
    [context |-> s.context \o
                 << create_system_message(SYSTEM_PROMPT),
                    create_user_message(InitText(task, screen_info), screenshot_base64) >>,
     step_count |-> 1]

\* init_session without its user turn.
init_session_SystemOnly(s, task, screen_info, screenshot_base64) ==
    [context |-> << create_system_message(SYSTEM_PROMPT) >>, step_count |-> 1]

init_session(s, task, screen_info, screenshot_base64) ==
    [context |-> << create_system_message(SYSTEM_PROMPT),
                    create_user_message(InitText(task, screen_info), screenshot_base64) >>,
     step_count |-> 1]

StepText(screen_info) == "** Screen Info **\n\n" \o screen_info

\* The compaction emptying the last turn instead of filtering its parts.
CompactLast_DropsText(context) ==
    IF context # <<>>
    THEN [context EXCEPT ![Len(context)].content = <<>>]
    ELSE context

\* step 1 of step_session: the last turn loses its images, if there is a turn.
CompactLast(context) ==
    IF context # <<>>
    THEN [context EXCEPT ![Len(context)] = remove_images_from_message(@)]
    ELSE context

step_session(s, screen_info, screenshot_base64) ==
    [context |-> Append(CompactLast(s.context),
                        create_user_message(StepText(screen_info), screenshot_base64)),
     step_count |-> s.step_count + 1]

AssistantText(thinking, action_str) ==
    "<think>" \o thinking \o "</think><answer>" \o action_str \o "</answer>"

\* add_assistant_response counting the answer as a step.
add_assistant_response_Counts(s, thinking, action_str) ==
    [context |-> Append(s.context,
                        create_assistant_message(AssistantText(thinking, action_str))),
     step_count |-> s.step_count + 1]

add_assistant_response(s, thinking, action_str) ==
    [s EXCEPT !.context =
        Append(@, create_assistant_message(AssistantText(thinking, action_str)))]

\* ------------------------------------------------------------ parse_action
\* The action texts the parser recognizes; on any other it raises ValueError.
Recognized(action) == action = "do(action=Tap)"
parse_action(action) == [_metadata |-> "do", message |-> action]

\* action_data without the except ValueError fallback to a finish marker.
ActionData_NoFallback(action) == parse_action(action)

\* action_data of websocket_endpoint
ActionData(action) ==
    IF Recognized(action) THEN parse_action(action)
    ELSE [_metadata |-> "finish", message |-> action]

\* ------------------------------------------------------------------- state
VARIABLES
    pc,                  \* pc[h]: where handler h stands in websocket_endpoint
    cid,                 \* cid[h]: the client_id handler h was called with
    session,             \* session[h]: the AgentSession handler h holds
    data,                \* data[h]: the message handler h is processing
    response,            \* response[h]: what model_client.request returned to h
    resp,                \* resp[h]: the payload handler h is sending
    active_connections,  \* manager.active_connections: client_id -> handler
    sessions,            \* manager.sessions: client_id -> owner of the AgentSession
    valid_run,           \* history: h's session was initialized, and every message
                         \* that reached the model call since was an init or a step
    reinit,              \* history: h's last init_session replaced a non-empty context
    peer_gone            \* peer_gone[h]: the client of h has dropped its socket

vars == <<pc, cid, session, data, response, resp, active_connections, sessions,
          valid_run, reinit, peer_gone>>

Init ==
    /\ pc = [h \in Handlers |-> "new"]
    /\ cid = [h \in Handlers |-> None]
    /\ session = [h \in Handlers |-> NewSession]
    /\ data = [h \in Handlers |-> NoMsg]
    /\ response = [h \in Handlers |-> NoResponse]
    /\ resp = [h \in Handlers |-> NoResp]
    /\ active_connections = [c \in ClientIds |-> 0]
    /\ sessions = [c \in ClientIds |-> 0]
    /\ valid_run = [h \in Handlers |-> FALSE]
    /\ reinit = [h \in Handlers |-> FALSE]
    /\ peer_gone = [h \in Handlers |-> FALSE]

\* ------------------------------------------------------- ConnectionManager
\* connect handing out the AgentSession left by an earlier connection of the
\* same client_id instead of a new one.
Connect_Resumes(h, c) ==
    /\ pc[h] = "new"
    /\ active_connections' = [active_connections EXCEPT ![c] = h]
    /\ sessions' = [sessions EXCEPT ![c] = h]
    /\ session' = [session EXCEPT ![h] =
          IF \E g \in Handlers : g # h /\ cid[g] = c
          THEN session[CHOOSE g \in Handlers : g # h /\ cid[g] = c]
          ELSE NewSession]
    /\ cid' = [cid EXCEPT ![h] = c]
    /\ pc' = [pc EXCEPT ![h] = "recv"]
    /\ UNCHANGED <<data, resp, response, valid_run, reinit, peer_gone>>

\* manager.connect, then session = manager.get_session(client_id)
Connect(h, c) ==
    /\ pc[h] = "new"
    /\ active_connections' = [active_connections EXCEPT ![c] = h]
    /\ sessions' = [sessions EXCEPT ![c] = h]
    /\ session' = [session EXCEPT ![h] = NewSession]
    /\ cid' = [cid EXCEPT ![h] = c]
    /\ pc' = [pc EXCEPT ![h] = "recv"]
    /\ UNCHANGED <<data, resp, response, valid_run, reinit, peer_gone>>

\* manager.disconnect(client_id): the registry after the call
DisconnectConnections(c) == [active_connections EXCEPT ![c] = 0]

\* disconnect dropping every session instead of the client's own.
DisconnectSessions_All(c) == [k \in ClientIds |-> 0]

DisconnectSessions(c) == [sessions EXCEPT ![c] = 0]

\* ------------------------------------------------------ websocket_endpoint
ErrorResp(msg) == [status |-> "error", message |-> msg]

\* The coroutine of handler h returns: its locals are gone.
Return(h) ==
    /\ data' = [data EXCEPT ![h] = NoMsg]
    /\ response' = [response EXCEPT ![h] = NoResponse]
    /\ resp' = [resp EXCEPT ![h] = NoResp]

\* receive_json raises WebSocketDisconnect: except WebSocketDisconnect
ReceiveDisconnect(h) ==
    /\ pc[h] = "recv"
    /\ active_connections' = DisconnectConnections(cid[h])
    /\ sessions' = DisconnectSessions(cid[h])
    /\ pc' = [pc EXCEPT ![h] = "closed"]
    /\ Return(h)
    /\ UNCHANGED <<cid, session, valid_run, reinit, peer_gone>>

\* receive_json raises anything else (a message that is not JSON):
\* except Exception, whose best-effort send_json ends the coroutine.
ReceiveMalformed(h) ==
    /\ pc[h] = "recv"
    /\ pc' = [pc EXCEPT ![h] = "crashed"]
    /\ Return(h)
    /\ UNCHANGED <<cid, session, active_connections, sessions, valid_run, reinit, peer_gone>>

\* if not screenshot: send error, continue
ReceiveMissingScreenshot(h, m) ==
    /\ pc[h] = "recv"
    /\ Falsy(m.screenshot)
    /\ data' = [data EXCEPT ![h] = m]
    /\ resp' = [resp EXCEPT ![h] = ErrorResp("Missing screenshot")]
    /\ pc' = [pc EXCEPT ![h] = "send"]
    /\ UNCHANGED <<cid, session, active_connections, sessions, response, valid_run, reinit, peer_gone>>

\* The task check placed after init_session.
ReceiveMissingTask_AfterInit(h, m) ==
    /\ pc[h] = "recv"
    /\ ~Falsy(m.screenshot)
    /\ m.type = "init"
    /\ Falsy(m.task)
    /\ data' = [data EXCEPT ![h] = m]
    /\ session' = [session EXCEPT ![h] =
          init_session(@, m.task, Get(m.screen_info, "Unknown Page"), m.screenshot)]
    /\ resp' = [resp EXCEPT ![h] = ErrorResp("Missing task for init")]
    /\ pc' = [pc EXCEPT ![h] = "send"]
    /\ UNCHANGED <<cid, active_connections, sessions, response, valid_run, reinit, peer_gone>>

\* req_type == "init" and not task: send error, continue
ReceiveMissingTask(h, m) ==
    /\ pc[h] = "recv"
    /\ ~Falsy(m.screenshot)
    /\ m.type = "init"
    /\ Falsy(m.task)
    /\ data' = [data EXCEPT ![h] = m]
    /\ resp' = [resp EXCEPT ![h] = ErrorResp("Missing task for init")]
    /\ pc' = [pc EXCEPT ![h] = "send"]
    /\ UNCHANGED <<cid, session, active_connections, sessions, response, valid_run, reinit, peer_gone>>

\* req_type == "init": session.init_session(task, screen_info, screenshot)
ReceiveInit(h, m) ==
    /\ pc[h] = "recv"
    /\ ~Falsy(m.screenshot)
    /\ m.type = "init"
    /\ ~Falsy(m.task)
    /\ data' = [data EXCEPT ![h] = m]
    /\ session' = [session EXCEPT ![h] =
          init_session(@, m.task, Get(m.screen_info, "Unknown Page"), m.screenshot)]
    /\ valid_run' = [valid_run EXCEPT ![h] = TRUE]
    /\ reinit' = [reinit EXCEPT ![h] = (session[h].context # <<>>)]
    /\ pc' = [pc EXCEPT ![h] = "infer"]
    /\ UNCHANGED <<cid, resp, active_connections, sessions, response, peer_gone>>

\* req_type == "step": session.step_session(screen_info, screenshot)
ReceiveStep(h, m) ==
    /\ pc[h] = "recv"
    /\ ~Falsy(m.screenshot)
    /\ m.type = "step"
    /\ data' = [data EXCEPT ![h] = m]
    /\ session' = [session EXCEPT ![h] =
          step_session(@, Get(m.screen_info, "Unknown Page"), m.screenshot)]
    /\ pc' = [pc EXCEPT ![h] = "infer"]
    /\ UNCHANGED <<cid, resp, active_connections, sessions, response, valid_run, reinit, peer_gone>>

\* Any other req_type: neither branch of the if/elif runs, and the loop body
\* goes on to the model call.
ReceiveOther(h, m) ==
    /\ pc[h] = "recv"
    /\ ~Falsy(m.screenshot)
    /\ m.type \notin {"init", "step"}
    /\ data' = [data EXCEPT ![h] = m]
    /\ valid_run' = [valid_run EXCEPT ![h] = FALSE]
    /\ pc' = [pc EXCEPT ![h] = "infer"]
    /\ UNCHANGED <<cid, session, resp, active_connections, sessions, response, reinit, peer_gone>>

\* The except branch undoing the context update of the failed request.
InferFail_DropsUserTurn(h) ==
    /\ pc[h] = "infer"
    /\ session' = [session EXCEPT ![h].context =
          IF @ = <<>> THEN @ ELSE SubSeq(@, 1, Len(@) - 1)]
    /\ resp' = [resp EXCEPT ![h] = ErrorResp("Model inference failed")]
    /\ pc' = [pc EXCEPT ![h] = "send"]
    /\ UNCHANGED <<cid, data, active_connections, sessions, response, valid_run, reinit, peer_gone>>

\* The except branch continuing without a response to the client.
InferFail_NoResponse(h) ==
    /\ pc[h] = "infer"
    /\ pc' = [pc EXCEPT ![h] = "recv"]
    /\ data' = [data EXCEPT ![h] = NoMsg]
    /\ UNCHANGED <<cid, session, resp, active_connections, sessions, response,
                   valid_run, reinit, peer_gone>>

\* model_client.request(session.context) raises: send error, continue
InferFail(h) ==
    /\ pc[h] = "infer"
    /\ resp' = [resp EXCEPT ![h] = ErrorResp("Model inference failed")]
    /\ pc' = [pc EXCEPT ![h] = "send"]
    /\ UNCHANGED <<cid, session, data, active_connections, sessions, response, valid_run, reinit, peer_gone>>

\* response_payload reporting the number of turns as the step.
SuccessResp_TurnCount(s, r) ==
    [status |-> "success",
     step |-> Len(s.context),
     thinking |-> r.thinking,
     action |-> ActionData(r.action),
     raw_response |-> r.action,
     finished |-> (ActionData(r.action)._metadata = "finish")]

\* response_payload of websocket_endpoint
SuccessResp(s, r) ==
    [status |-> "success",
     step |-> s.step_count,
     thinking |-> r.thinking,
     action |-> ActionData(r.action),
     raw_response |-> r.action,
     finished |-> (ActionData(r.action)._metadata = "finish")]

\* model_client.request returns r: parse_action, add_assistant_response,
\* build response_payload
InferOk(h, r) ==
    /\ pc[h] = "infer"
    /\ response' = [response EXCEPT ![h] = r]
    /\ session' = [session EXCEPT ![h] = add_assistant_response(@, r.thinking, r.action)]
    /\ resp' = [resp EXCEPT ![h] = SuccessResp(session'[h], r)]
    /\ pc' = [pc EXCEPT ![h] = "send"]
    /\ UNCHANGED <<cid, data, active_connections, sessions, valid_run, reinit, peer_gone>>

\* The loop left, and the client disconnected, once a finished response is sent.
SendOk_ClosesWhenFinished(h) ==
    /\ pc[h] = "send"
    /\ IF resp[h].status = "success" /\ resp[h].finished
       THEN /\ pc' = [pc EXCEPT ![h] = "closed"]
            /\ active_connections' = DisconnectConnections(cid[h])
            /\ sessions' = DisconnectSessions(cid[h])
       ELSE /\ pc' = [pc EXCEPT ![h] = "recv"]
            /\ UNCHANGED <<active_connections, sessions>>
    /\ data' = [data EXCEPT ![h] = NoMsg]
    /\ response' = [response EXCEPT ![h] = NoResponse]
    /\ resp' = [resp EXCEPT ![h] = NoResp]
    /\ UNCHANGED <<cid, session, valid_run, reinit, peer_gone>>

\* send_json returns: back to receive_json
SendOk(h) ==
    /\ pc[h] = "send"
    /\ pc' = [pc EXCEPT ![h] = "recv"]
    /\ data' = [data EXCEPT ![h] = NoMsg]
    /\ response' = [response EXCEPT ![h] = NoResponse]
    /\ resp' = [resp EXCEPT ![h] = NoResp]
    /\ UNCHANGED <<cid, session, active_connections, sessions, valid_run, reinit, peer_gone>>

\* send_json raises WebSocketDisconnect: except WebSocketDisconnect
SendDisconnect(h) ==
    /\ pc[h] = "send"
    /\ active_connections' = DisconnectConnections(cid[h])
    /\ sessions' = DisconnectSessions(cid[h])
    /\ pc' = [pc EXCEPT ![h] = "closed"]
    /\ Return(h)
    /\ UNCHANGED <<cid, session, valid_run, reinit, peer_gone>>

\* send_json raises anything else: except Exception, whose best-effort
\* send_json ends the coroutine.
SendFail(h) ==
    /\ pc[h] = "send"
    /\ pc' = [pc EXCEPT ![h] = "crashed"]
    /\ Return(h)
    /\ UNCHANGED <<cid, session, active_connections, sessions, valid_run, reinit, peer_gone>>

\* The bound on the model: a message that makes the context grow (one that
\* is neither rejected nor a valid init) is received only while the context
\* is shorter than limit.
Receivable(h, m, limit) ==
    \/ m.type = "init" /\ ~Falsy(m.screenshot) /\ ~Falsy(m.task)
    \/ Falsy(m.screenshot)
    \/ Len(session[h].context) < limit

\* One step of handler h: its messages drawn from Msgs, the model's answers
\* from Rs.
Handler(h, Msgs, Rs, limit) ==
    \/ \E c \in ClientIds : Connect(h, c)
    \/ ReceiveDisconnect(h)
    \/ ReceiveMalformed(h)
    \/ \E m \in Msgs : Receivable(h, m, limit) /\ ReceiveMissingScreenshot(h, m)
    \/ \E m \in Msgs : Receivable(h, m, limit) /\ ReceiveMissingTask(h, m)
    \/ \E m \in Msgs : Receivable(h, m, limit) /\ ReceiveInit(h, m)
    \/ \E m \in Msgs : Receivable(h, m, limit) /\ ReceiveStep(h, m)
    \/ \E m \in Msgs : Receivable(h, m, limit) /\ ReceiveOther(h, m)
    \/ InferFail(h)
    \/ \E r \in Rs : InferOk(h, r)
    \/ SendOk(h)
    \/ SendDisconnect(h)
    \/ SendFail(h)

\* One connection, every message.
Next == Handler(1, Messages, ModelResponses, MaxContext)
Spec == Init /\ [][Next]_vars

\* Two connections, the reduced messages and answers.
NextTwo == \E h \in Handlers : Handler(h, FewMessages, FewResponses, MaxContextTwo)
SpecTwo == Init /\ [][NextTwo]_vars

\* The client of h drops its socket without a close handshake, at any point
\* of the loop: the handler sees it at its next receive_json or send_json.
PeerClose(h) ==
    /\ pc[h] \in {"recv", "infer", "send"}
    /\ ~peer_gone[h]
    /\ peer_gone' = [peer_gone EXCEPT ![h] = TRUE]
    /\ UNCHANGED <<pc, cid, session, data, response, resp, active_connections,
                   sessions, valid_run, reinit>>

\* One step of handler h or of its client, which may drop the socket: once
\* it has, no message arrives, receive_json raises WebSocketDisconnect, and
\* send_json raises WebSocketDisconnect or, depending on the server stack,
\* another exception.
HandlerPeer(h, Msgs, Rs, limit) ==
    \/ PeerClose(h)
    \/ \E c \in ClientIds : Connect(h, c)
    \/ peer_gone[h] /\ ReceiveDisconnect(h)
    \/ ~peer_gone[h] /\ ReceiveMalformed(h)
    \/ \E m \in Msgs :
          ~peer_gone[h] /\ Receivable(h, m, limit) /\ ReceiveMissingScreenshot(h, m)
    \/ \E m \in Msgs :
          ~peer_gone[h] /\ Receivable(h, m, limit) /\ ReceiveMissingTask(h, m)
    \/ \E m \in Msgs : ~peer_gone[h] /\ Receivable(h, m, limit) /\ ReceiveInit(h, m)
    \/ \E m \in Msgs : ~peer_gone[h] /\ Receivable(h, m, limit) /\ ReceiveStep(h, m)
    \/ \E m \in Msgs : ~peer_gone[h] /\ Receivable(h, m, limit) /\ ReceiveOther(h, m)
    \/ InferFail(h)
    \/ \E r \in Rs : InferOk(h, r)
    \/ ~peer_gone[h] /\ SendOk(h)
    \/ peer_gone[h] /\ SendDisconnect(h)
    \/ peer_gone[h] /\ SendFail(h)

\* One connection whose client may drop the socket.
NextPeer == HandlerPeer(1, FewMessages, ModelResponses, MaxContext)
SpecPeer == Init /\ [][NextPeer]_vars

\* ------------------------------------------------- vocabulary of the claims
Context(h) == session[h].context
HasImage(turn) == \E i \in 1..Len(turn.content) : turn.content[i].type = "image"
\* The positions of the turns that carry image data.
ImageTurns(ctx) == { i \in 1..Len(ctx) : HasImage(ctx[i]) }
UserTurns(ctx) == { i \in 1..Len(ctx) : ctx[i].role = "user" }
\* The position of the most recent user turn (0 when there is none).
LastUserTurn(ctx) ==
    IF UserTurns(ctx) = {} THEN 0
    ELSE CHOOSE i \in UserTurns(ctx) : \A j \in UserTurns(ctx) : j <= i
\* The text of a turn: its text parts, in order.
TextOf(turn) == SelectSeq(turn.content, LAMBDA p : p.type = "text")

\* Handler h takes a message off the socket in this step.
Received(h) == pc[h] = "recv" /\ pc'[h] \in {"send", "infer"}
\* Handler h gets the model's answer, or its failure, in this step.
Inferred(h) == pc[h] = "infer" /\ pc'[h] = "send"
\* The message fails the required-field validation of its type.
FailsValidation(m) ==
    /\ m.type \in {"init", "step"}
    /\ Falsy(m.screenshot) \/ (m.type = "init" /\ Falsy(m.task))
RegistryUnchanged == UNCHANGED <<active_connections, sessions, cid>>

\* ---------------------------------------------------------------------- C1
\* C1: On a session that was initialized and has since processed only init
\* and step messages, once a step message has been processed exactly one
\* turn of the context carries image data, and it is the most recent user
\* turn.
C1_OneImageAfterStep ==
    \A h \in Handlers :
        (valid_run[h] /\ data[h].type = "step" /\ pc[h] \in {"infer", "send"})
            => ImageTurns(Context(h)) = {LastUserTurn(Context(h))}

\* ---------------------------------------------------------------------- C2
\* The context is empty, or one system turn followed by user and assistant
\* turns that alternate strictly, the user turn first.
Alternating(ctx) ==
    \A i \in 1..Len(ctx) :
        ctx[i].role = (IF i = 1 THEN "system"
                       ELSE IF i % 2 = 0 THEN "user" ELSE "assistant")

C3_StepOnEmptyRejected ==
    [][ \A h \in Handlers :
          (Received(h) /\ Context(h) = <<>> /\ data'[h].type = "step")
              => /\ pc'[h] = "send"
                 /\ resp'[h].status = "error"
                 /\ session'[h] = session[h] ]_vars

\* ---------------------------------------------------------------------- C4
\* C4: an init or step message that fails the required-field validation is
\* answered with an error response without the model being called, leaves
\* the session and the registry as they were, and, once the response is sent,
\* the handler is receiving again on the same session.
C4_InvalidMessageRejected ==
    [][ \A h \in Handlers :
          /\ (Received(h) /\ FailsValidation(data'[h]))
                => /\ pc'[h] = "send"
                   /\ resp'[h].status = "error"
                   /\ session'[h] = session[h]
                   /\ response'[h] = NoResponse
                   /\ RegistryUnchanged
          /\ (pc[h] = "send" /\ FailsValidation(data[h]))
                => /\ session'[h] = session[h]
                   /\ pc'[h] \in {"send", "recv", "closed", "crashed"}
                   /\ resp[h].status = "error"
                   /\ (pc'[h] = "recv" => RegistryUnchanged) ]_vars

C4_Witness ==
    /\ pc[1] = "send"
    /\ data[1].type = "init"
    /\ data[1].task = ""
    /\ data[1].screenshot = "imgB"
    /\ resp[1].status = "error"
    /\ Len(Context(1)) >= 3
    /\ session[1].step_count = 2

\* ---------------------------------------------------------------------- C5
\* C5: while a message whose type is neither init nor step is processed,
\* the session is never changed, and the response built for it is an error.
C5_UnknownTypeRejected ==
    [][ \A h \in Handlers :
          ((Received(h) \/ Inferred(h)) /\ data'[h].type \notin {"init", "step"})
              => /\ session'[h] = session[h]
                 /\ (pc'[h] = "send" => resp'[h].status = "error") ]_vars

\* ---------------------------------------------------------------------- C6
StartsWith(text, prefix) ==
    Len(text) >= Len(prefix) /\ SubSeq(text, 1, Len(prefix)) = prefix

\* C6: whatever the session held before, processing a valid init message
\* leaves the context as exactly [system turn, user turn], the user turn
\* carrying the task text and the message's screenshot, and the step counter
\* at 1; initializing the result again with the same arguments changes
\* nothing.
C6_InitializeResets ==
    [][ \A h \in Handlers :
          (Received(h) /\ pc'[h] = "infer" /\ data'[h].type = "init")
              => LET m == data'[h]
                     s == session'[h]
                 IN  /\ s.step_count = 1
                     /\ Len(s.context) = 2
                     /\ s.context[1] = create_system_message(SYSTEM_PROMPT)
                     /\ s.context[2].role = "user"
                     /\ Len(TextOf(s.context[2])) = 1
                     /\ StartsWith(TextOf(s.context[2])[1].val, m.task)
                     /\ ImageTurns(s.context) = {2}
                     /\ \A i \in 1..Len(s.context[2].content) :
                            s.context[2].content[i].type = "image"
                                => s.context[2].content[i].val = m.screenshot
                     /\ init_session(s, m.task, Get(m.screen_info, "Unknown Page"),
                                     m.screenshot) = s ]_vars

\* An init that replaced a non-empty context has just been processed.
C6_Witness ==
    /\ pc[1] = "infer"
    /\ data[1].type = "init"
    /\ reinit[1]
    /\ Len(Context(1)) = 2

\* ---------------------------------------------------------------------- C7
\* C7: in every step of a session the step counter becomes 1 when an init
\* message is processed, grows by exactly 1 when a step message is processed,
\* and is unchanged by everything else (failed validation, unknown types,
\* reasoning failures, the assistant turn, sends and disconnects).
C7_StepCounter ==
    [][ \A h \in Handlers :
          pc[h] # "new" =>
            LET before == session[h].step_count
                after == session'[h].step_count
            IN  IF Received(h) /\ pc'[h] = "infer" /\ data'[h].type = "init"
                    THEN after = 1
                ELSE IF Received(h) /\ pc'[h] = "infer" /\ data'[h].type = "step"
                    THEN after = before + 1
                ELSE after = before ]_vars

\* The third step of a task, its reasoning call failed as the two before it.
C7_Witness ==
    /\ pc[1] = "send"
    /\ data[1].type = "step"
    /\ resp[1] = ErrorResp("Model inference failed")
    /\ session[1].step_count = 3

\* ---------------------------------------------------------------------- C8
\* The context ends in a user turn that has no answer.
UnansweredUser(ctx) == ctx # <<>> /\ ctx[Len(ctx)].role = "user"

\* C8: when the reasoning call fails the response is an error, the session is
\* left as the context update made it (for an init or a step: ending in the
\* new user turn, no assistant turn added) and the registry is untouched;
\* the error response is followed by a receive and never by another model
\* call; and a step message received while the context ends in an unanswered
\* user turn goes on to the model call with that turn's text still in place
\* and the new user turn after it.
C8_ReasoningFailure ==
    [][ \A h \in Handlers :
          /\ (Inferred(h) /\ resp'[h].status = "error")
                => /\ session'[h] = session[h]
                   /\ RegistryUnchanged
                   /\ data[h].type \in {"init", "step"}
                          => UnansweredUser(Context(h))
          /\ (pc[h] = "send" /\ resp[h].status = "error")
                => /\ pc'[h] \in {"send", "recv", "closed", "crashed"}
                   /\ session'[h] = session[h]
                   /\ pc'[h] = "recv" => RegistryUnchanged
          /\ (Received(h) /\ UnansweredUser(Context(h))
                /\ data'[h].type = "step" /\ ~Falsy(data'[h].screenshot))
                => LET old == Context(h)
                       new == session'[h].context
                       n == Len(old)
                   IN  /\ pc'[h] = "infer"
                       /\ Len(new) = n + 1
                       /\ SubSeq(new, 1, n - 1) = SubSeq(old, 1, n - 1)
                       /\ new[n].role = "user"
                       /\ TextOf(new[n]) = TextOf(old[n])
                       /\ new[n + 1].role = "user" ]_vars

\* A step is at the model call with the unanswered user turn of a failed
\* init before its own.
C8_Witness ==
    /\ pc[1] = "infer"
    /\ data[1].type = "step"
    /\ valid_run[1]
    /\ Len(Context(1)) = 3
    /\ Context(1)[2].role = "user"
    /\ Context(1)[3].role = "user"
    /\ session[1].step_count = 2

\* ---------------------------------------------------------------------- C9
\* C9: when the model returns, the assistant turn built from its thinking and
\* its raw action text is appended to the context, whether or not the parser
\* recognizes the action; and when it does not, the response is a success
\* with finished = true, the finish marker carrying the raw text as action
\* and the raw text as raw_response, and the handler goes on to send it.
C9_UnrecognizedAction ==
    [][ \A h \in Handlers :
          (Inferred(h) /\ response'[h] # NoResponse)
              => LET r == response'[h]
                     p == resp'[h]
                 IN  /\ session'[h].context =
                            Append(Context(h),
                                   create_assistant_message(
                                       AssistantText(r.thinking, r.action)))
                     /\ session'[h].step_count = session[h].step_count
                     /\ RegistryUnchanged
                     /\ p.status = "success"
                     /\ p.raw_response = r.action
                     /\ ~Recognized(r.action)
                            => /\ p.finished = TRUE
                               /\ p.action = [_metadata |-> "finish",
                                              message |-> r.action] ]_vars

C9_Witness ==
    /\ pc[1] = "send"
    /\ response[1].action = "all done"
    /\ resp[1].status = "success"
    /\ resp[1].finished = TRUE

\* --------------------------------------------------------------------- C10
\* C10: once a handler's loop has ended on an exception other than a peer
\* disconnect, the registry holds no connection and no session for its
\* client identifier.
C10_NoLeakOnCrash ==
    \A h \in Handlers :
        pc[h] = "crashed"
            => active_connections[cid[h]] = 0 /\ sessions[cid[h]] = 0

\* --------------------------------------------------------------------- C11
\* C11: when the client of a handler has dropped its socket and the handler
\* has ended, the registry holds no connection and no session for the
\* handler's client identifier.
C11_PeerCloseCleansUp ==
    \A h \in Handlers :
        (peer_gone[h] /\ pc[h] \in {"closed", "crashed"})
            => active_connections[cid[h]] = 0 /\ sessions[cid[h]] = 0

\* --------------------------------------------------------------------- C12
\* The connection handler h serves is open: accepted, and its loop running.
Open(h) == pc[h] \in {"recv", "infer", "send"}

\* C12: in every reachable state, each of the two registry maps holds an
\* entry for a client identifier exactly when a connection with that
\* identifier is open (the maps, keyed by identifier, hold at most one entry
\* each), and every open connection finds itself in the registry, whatever
\* other connections have done.
C12_EntryIffOpen ==
    /\ \A c \in ClientIds :
          /\ active_connections[c] # 0 <=> \E h \in Handlers : Open(h) /\ cid[h] = c
          /\ sessions[c] # 0 <=> \E h \in Handlers : Open(h) /\ cid[h] = c
    /\ \A h \in Handlers :
          Open(h) => active_connections[cid[h]] # 0 /\ sessions[cid[h]] # 0

\* --------------------------------------------------------------------- C13
\* C13: a connect under a client identifier that has a registry entry leaves
\* that entry (connection handle and session) as it was, and the connecting
\* handler does not enter the message loop.
C13_DuplicateRejected ==
    [][ \A h \in Handlers :
          (pc[h] = "new" /\ pc'[h] # "new" /\ active_connections[cid'[h]] # 0)
              => /\ active_connections'[cid'[h]] = active_connections[cid'[h]]
                 /\ sessions'[cid'[h]] = sessions[cid'[h]]
                 /\ pc'[h] # "recv" ]_vars

\* --------------------------------------------------------------------- C14
\* C14: every step taken for a connection leaves alone each connection with
\* another client identifier: its context and step counter, its position in
\* the loop and its registry entry are unchanged.
C14_Isolation ==
    [][ \A h, g \in Handlers :
          (h # g /\ pc'[h] # pc[h] /\ pc[g] # "new" /\ cid[g] # cid'[h])
              => /\ session'[g] = session[g]
                 /\ pc'[g] = pc[g]
                 /\ data'[g] = data[g]
                 /\ resp'[g] = resp[g]
                 /\ active_connections'[cid[g]] = active_connections[cid[g]]
                 /\ sessions'[cid[g]] = sessions[cid[g]] ]_vars

\* Connection 1 has disconnected; connection 2, of another client, has its
\* own task under way and its own registry entry.
C14_Witness ==
    /\ pc[1] = "closed"
    /\ cid[1] # cid[2]
    /\ Context(1) # <<>>
    /\ pc[2] = "send"
    /\ resp[2].status = "success"
    /\ Len(Context(2)) = 3
    /\ Context(2)[1].role = "system"
    /\ active_connections[cid[2]] = 2
    /\ sessions[cid[2]] = 2

\* --------------------------------------------------------------------- C16
\* C16: a connect gives the handler a new, empty session (no turn, step
\* counter 0) and makes it the registry's session for the client identifier,
\* also when an earlier connection of that identifier has left a history.
C16_FreshSession ==
    [][ \A h \in Handlers :
          (pc[h] = "new" /\ pc'[h] # "new")
              => /\ session'[h] = NewSession
                 /\ sessions'[cid'[h]] = h
                 /\ active_connections'[cid'[h]] = h
                 /\ session'[sessions'[cid'[h]]].context = <<>> ]_vars

\* Connection 2 has connected under the client identifier of connection 1,
\* which ran a task and disconnected.
C16_Witness ==
    /\ pc[1] = "closed"
    /\ Len(Context(1)) >= 2
    /\ cid[2] = cid[1]
    /\ pc[2] = "recv"
    /\ Context(2) = <<>>
    /\ sessions[cid[2]] = 2

\* --------------------------------------------------------------------- C15
\* The context ends in the assistant turn of an answer that was no
\* recognized action, that is, of a response with finished = true.
EndsFinished(ctx) ==
    /\ ctx # <<>>
    /\ ctx[Len(ctx)].role = "assistant"
    /\ \E r \in ModelResponses :
          /\ ~Recognized(r.action)
          /\ ctx[Len(ctx)] = create_assistant_message(AssistantText(r.thinking, r.action))

\* C15: while the client keeps its socket, the step that follows a success
\* response with finished = true is its send, which leaves the handler
\* receiving again with its session and the registry as they were; and a
\* valid init received after it resets the context to [system, user] and the
\* step counter to 1.
C15_FinishedKeepsConnection ==
    [][ \A h \in Handlers :
          /\ (pc[h] = "send" /\ resp[h].status = "success" /\ resp[h].finished
                /\ ~peer_gone'[h])
                => /\ pc'[h] = "recv"
                   /\ session'[h] = session[h]
                   /\ RegistryUnchanged
          /\ (Received(h) /\ EndsFinished(Context(h))
                /\ data'[h].type = "init" /\ ~FailsValidation(data'[h]))
                => /\ pc'[h] = "infer"
                   /\ session'[h].step_count = 1
                   /\ Len(session'[h].context) = 2
                   /\ session'[h].context[1].role = "system"
                   /\ session'[h].context[2].role = "user"
                   /\ RegistryUnchanged ]_vars

\* The second step of a task was answered with a finished response, the
\* response was sent, and the handler is receiving with its registry entry.
C15_Witness ==
    /\ pc[1] = "recv"
    /\ valid_run[1]
    /\ session[1].step_count = 2
    /\ EndsFinished(Context(1))
    /\ active_connections[cid[1]] = 1
    /\ sessions[cid[1]] = 1

\* --------------------------------------------------------------------- C17
\* Handler h processes a step message in this step.
Advanced(h) == Received(h) /\ pc'[h] = "infer" /\ data'[h].type = "step"

\* C17: when a step message is processed on a non-empty context (of a
\* session that was initialized and has since processed only init and step
\* messages), the turn that was last is a user turn, it is replaced by its
\* image-stripped form, the new user turn comes after it, and every other
\* turn is unchanged.
C17_CompactionTargetsUserTurn ==
    [][ \A h \in Handlers :
          (Advanced(h) /\ valid_run[h] /\ Context(h) # <<>>)
              => LET old == Context(h)
                     new == session'[h].context
                     n == Len(old)
                 IN  /\ old[n].role = "user"
                     /\ Len(new) = n + 1
                     /\ new[n] = remove_images_from_message(old[n])
                     /\ SubSeq(new, 1, n - 1) = SubSeq(old, 1, n - 1)
                     /\ new[n + 1].role = "user" ]_vars

\* --------------------------------------------------------------------- C18
\* Handler h processes a valid init message in this step.
Initialized(h) == Received(h) /\ pc'[h] = "infer" /\ data'[h].type = "init"

\* C18: a step of a handler that is not an initialization removes no turn
\* and reorders none: the context keeps its length or grows, and every turn
\* it held keeps its position, its role and its text parts, and is either
\* unchanged or the same turn without its image parts.
C18_TurnsPreserved ==
    [][ \A h \in Handlers :
          (pc[h] # "new" /\ ~Initialized(h))
              => LET old == Context(h)
                     new == session'[h].context
                 IN  /\ Len(new) >= Len(old)
                     /\ \A i \in 1..Len(old) :
                          /\ new[i].role = old[i].role
                          /\ TextOf(new[i]) = TextOf(old[i])
                          /\ TextOf(old[i]) # <<>>
                          /\ new[i] \in {old[i], remove_images_from_message(old[i])} ]_vars

\* A step after a failed init: the init's user turn has lost its image and
\* kept its text.
C18_Witness ==
    /\ pc[1] = "infer"
    /\ data[1].type = "step"
    /\ valid_run[1]
    /\ Len(Context(1)) = 3
    /\ Context(1)[2].role = "user"
    /\ ~HasImage(Context(1)[2])
    /\ TextOf(Context(1)[2]) = <<TextPart(InitText("buy lunch", "Unknown Page"))>>
    /\ HasImage(Context(1)[3])

\* --------------------------------------------------------------------- C19
\* C19: a handler that is receiving holds no message and no response; a
\* received message is followed, in order, by at most one model call and by
\* exactly one payload, which is sent before the next receive: the handler
\* moves from receive to the model call or to a send, from the model call
\* to a send, and from a send back to receive (or it ends); the payload is
\* an error or a success and is not changed while it is sent; and a success
\* payload is only ever sent from a context whose last turn is the assistant
\* turn of that response.
C19_OneResponsePerMessage ==
    [][ \A h \in Handlers :
          /\ pc[h] = "recv" => (data[h] = NoMsg /\ resp[h] = NoResp)
          /\ pc[h] = "recv" => pc'[h] \in {"recv", "infer", "send", "closed", "crashed"}
          /\ (pc[h] = "recv" /\ pc'[h] = "infer") => resp'[h] = NoResp
          /\ pc[h] = "infer" => (resp[h] = NoResp /\ pc'[h] \in {"infer", "send"})
          /\ pc[h] = "send"
                => /\ resp[h].status \in {"error", "success"}
                   /\ pc'[h] \in {"send", "recv", "closed", "crashed"}
                   /\ pc'[h] = "send" => (resp'[h] = resp[h] /\ data'[h] = data[h])
                   /\ pc'[h] = "recv" => (resp'[h] = NoResp /\ data'[h] = NoMsg)
                   /\ resp[h].status = "success"
                        => LET ctx == Context(h) IN
                           /\ ctx # <<>>
                           /\ ctx[Len(ctx)] = create_assistant_message(
                                 AssistantText(resp[h].thinking, resp[h].raw_response)) ]_vars

\* A success response is being sent, its assistant turn the last of the context.
C19_Witness ==
    /\ pc[1] = "send"
    /\ data[1].type = "step"
    /\ resp[1].status = "success"
    /\ Len(Context(1)) = 5
    /\ Context(1)[5].role = "assistant"

\* --------------------------------------------------------------------- C20
\* C20: the step field of a success response sent on an initialized session
\* (one whose context starts with the system turn) is the step counter, which
\* is the number of user turns of the context: 1 for the init, and 1 more for
\* every step message processed since, whether or not the model answered it.
\* The response to an init carries step 1.
C20_StepField ==
    \A h \in Handlers :
        (pc[h] = "send" /\ resp[h].status = "success"
            /\ Context(h) # <<>> /\ Context(h)[1].role = "system")
            => /\ resp[h].step = session[h].step_count
               /\ resp[h].step = Cardinality(UserTurns(Context(h)))
               /\ data[h].type = "init" => resp[h].step = 1

\* The third step of a task is answered, after two failed model calls.
C20_Witness ==
    /\ pc[1] = "send"
    /\ data[1].type = "step"
    /\ resp[1].status = "success"
    /\ resp[1].step = 3
    /\ Len(Context(1)) = 5
    /\ Context(1)[1].role = "system"

=============================================================================
